---- MODULE Spec2Model ----
(***************************************************************************)
(* Model of myLogic207/pepper: the connection server of package base in    *)
(* its two revisions (the errgroup-based Serve with MAXCONN and the        *)
(* worker-pool based Serve with WORKERS) and the channel dispatch of       *)
(* package ssh (WorkConnect).                                              *)
(***************************************************************************)
EXTENDS Naturals, Integers, FiniteSets, Sequences, TLC

\* ------------------------------------------------------------------ bounds
MaxLimit == 3      \* largest configured MAXCONN / WORKERS explored
MaxConns == 2      \* client connections that may dial the listener
MaxStops == 2      \* explicit Stop calls made by the embedding program
MaxCtxStops == 2   \* Stop runs of Listen's cancellation goroutine explored
MaxChans == 3      \* channels a peer may open on one ssh connection
MaxReqs == 2       \* requests a peer may send on one ssh connection
MaxUsers == 2      \* user names that authenticate or are stored in the keystore
MaxKeys == 2       \* distinct public keys of one algorithm
MaxThreads == 3    \* goroutines that call one keystore concurrently
MaxCalls == 3      \* keystore calls made by those goroutines together

Conns == 1..MaxConns
Stoppers == 1..MaxStops
CtxThread == 0                      \* the goroutine started by Listen (pool revision)
StopThreads == {CtxThread} \cup Stoppers
Chans == 1..MaxChans
Reqs == 1..MaxReqs
Users == 1..MaxUsers
KeyBlobs == 1..MaxKeys
Threads == 1..MaxThreads

VARIABLES
    variant,    \* "errgroup" | "pool": which revision of base.Server runs
    maxconn,    \* MAXCONN (errgroup) / WORKERS (pool) from the config
    atoiOk,     \* whether strconv.Atoi(MAXCONN) succeeds
    policy,     \* what the worker pool does with a task when saturated
    listener,   \* s.listener: "open" | "closed"
    ctxDone,    \* the caller's context has been cancelled
    conn,       \* per client connection: its net.Conn and handler state
    log,        \* records written through s.Logger
    servePc,    \* position of the goroutine running Serve
    serveErr,   \* value returned by Serve
    lastErr,    \* err of the latest s.listener.Accept() of the accept loop
    acceptPc,   \* errgroup: the acceptConnections goroutine
    watchPc,    \* errgroup: the stop/cancel watcher goroutine
    active,     \* errgroup: goroutines of the group (tokens held in sem)
    gErr,       \* errgroup: first error recorded by the group
    eCtxDone,   \* errgroup: eCtx (derived from ctx) is done
    stopCh,     \* errgroup: s.stop: "nil" | "open" | "closed"
    stop,       \* per Stop caller: position inside Stop
    ctxStops,   \* pool: Stop runs started by Listen's goroutine
    poolStopped,\* pool: workers.Stop has drained the pool
    loggerDown, \* pool: s.Logger.Shutdown has run
    panicked,   \* an unrecovered panic ended the process
    work,       \* ssh: state of one WorkConnect call
    auth        \* ssh: the keystore and the latest authentication callback

serverVars == <<variant, maxconn, atoiOk, policy, listener, ctxDone, conn, log,
                servePc, serveErr, lastErr, acceptPc, watchPc, active, gErr, eCtxDone,
                stopCh, stop, ctxStops, poolStopped, loggerDown, panicked>>
cfgVars == <<variant, maxconn, atoiOk, policy>>
poolVars == <<ctxStops, poolStopped, loggerDown>>
vars == <<variant, maxconn, atoiOk, policy, listener, ctxDone, conn, log,
          servePc, serveErr, lastErr, acceptPc, watchPc, active, gErr, eCtxDone,
          stopCh, stop, ctxStops, poolStopped, loggerDown, panicked, work, auth>>

\* ---------------------------------------------------------------- helpers
NewConn == [st |-> "none", closed |-> FALSE, calls |-> 0, herr |-> FALSE]

\* connections whose task goroutine / worker is still occupied
Busy(c) == conn[c].st \in {"running", "returned"}
BusyConns == {c \in Conns : Busy(c)}
Alive == ~panicked

\* the first error wins (errgroup's errOnce)
FirstErr(old, new) == IF old = "none" THEN new ELSE old

\* channel types a peer may ask for; only the first has a registered handler
ChanTypes == {"session", "x11"}
ChannelHandlers == {"session"}

\* request types a peer may send; only the first has a registered handler
ReqTypes == {"exec", "unknown"}
RequestHandlers == {"exec"}

\* a request the peer has not sent yet
NoReq == [st |-> "unsent", ch |-> 0, typ |-> "none", want |-> FALSE,
          handler |-> "none", calls |-> 0, replies |-> 0, reply |-> "none",
          err |-> FALSE]

WorkIdle == [pc |-> "idle", closed |-> FALSE, chanCounter |-> 0, wg |-> 0,
             task |-> [c \in Chans |-> "unopened"],
             typ |-> [c \in Chans |-> "none"],
             id |-> [c \in Chans |-> -1],
             seen |-> [c \in Chans |-> -1],
             handler |-> [c \in Chans |-> "none"],
             logged |-> {},
             ret |-> "none",
             calls |-> [c \in Chans |-> 0],
             cret |-> [c \in Chans |-> "none"],
             chpc |-> [c \in Chans |-> "none"],
             accepted |-> [c \in Chans |-> "no"],
             rclosed |-> [c \in Chans |-> FALSE],
             rwg |-> [c \in Chans |-> 0],
             req |-> [r \in Reqs |-> NoReq],
             rlogged |-> {}]

\* public-key algorithms a client may present (pubKey.Type())
KeyTypes == {"ssh-ed25519", "ssh-rsa"}

\* an ssh.PublicKey: its algorithm and its encoded key material
Keys == [type : KeyTypes, blob : KeyBlobs]

\* no entry in ks.userKeys
NoKey == [type |-> "none", blob |-> 0]

\* an ssh.Signer, known by the public key of its private key; NoSigner is nil
Signer(b) == [pub |-> b]
NoSigner == [pub |-> 0]

\* private key material (PEM bytes): well-formed for a key, or malformed
Materials == [valid : BOOLEAN, key : KeyBlobs]
NoMaterial == [valid |-> FALSE, key |-> 0]

\* no callback and no keystore method has been called yet
NoResult == [method |-> "uncalled", user |-> 0, key |-> NoKey, record |-> "none",
             perm |-> {}, err |-> [kind |-> "nil", reason |-> "none"],
             consulted |-> FALSE, ok |-> FALSE, signer |-> NoSigner]

\* the embedded sync.RWMutex: the number of goroutines holding the read lock
\* and the goroutine that holds the writers' mutex rw.w (0: none), whether it
\* still waits for the readers to leave or already writes
RWUnlocked == [readers |-> 0, writer |-> 0]

\* a goroutine that is in no keystore method
NoCall == [name |-> "none", key |-> NoKey, m |-> NoMaterial]

\* no goroutine is in a keystore method; serial is the host key and the map
\* as the writes made so far give them when they are applied one after the
\* other in the order in which the write lock was acquired, raced records an
\* unsynchronised access to hostKey or userKeys
KsIdle == [lock |-> RWUnlocked,
           thr |-> [t \in Threads |-> [pc |-> "idle", call |-> NoCall]],
           serial |-> [hostKey |-> NoSigner, userKeys |-> [u \in Users |-> NoKey]],
           raced |-> FALSE,
           ncalls |-> 0]

\* a server with an empty keystore (make(map[string]ssh.PublicKey)) that has
\* no host key; material is the key material the host key was last parsed from
AuthIdle == [supported |-> {}, userKeys |-> [u \in Users |-> NoKey],
             hostKey |-> NoSigner, material |-> NoMaterial,
             res |-> NoResult, ks |-> KsIdle]

\* ------------------------------------------------------------------- Init
InitServer ==
    /\ variant \in {"errgroup", "pool"}
    /\ maxconn \in IF variant = "errgroup" THEN (-1)..MaxLimit ELSE 1..MaxLimit
    \* strconv.Atoi yields 0 together with its error
    /\ atoiOk \in IF variant = "errgroup" /\ maxconn = 0 THEN BOOLEAN ELSE {TRUE}
    /\ policy \in IF variant = "pool" THEN {"queue", "reject"} ELSE {"none"}
    /\ listener = "open"
    /\ ctxDone = FALSE
    /\ conn = [c \in Conns |-> NewConn]
    /\ log = {}
    /\ servePc = "idle"
    /\ serveErr = "none"
    /\ lastErr = "nil"
    /\ acceptPc = "notStarted"
    /\ watchPc = "notStarted"
    /\ active = 0
    /\ gErr = "none"
    /\ eCtxDone = FALSE
    /\ stopCh = "nil"
    /\ stop = [t \in StopThreads |-> "idle"]
    /\ ctxStops = 0
    /\ poolStopped = FALSE
    /\ loggerDown = FALSE
    /\ panicked = FALSE

Init ==
    /\ InitServer
    /\ variant = "errgroup"
    /\ work = WorkIdle
    /\ auth = AuthIdle

InitPool ==
    /\ InitServer
    /\ variant = "pool"
    /\ work = WorkIdle
    /\ auth = AuthIdle

\* ------------------------------------------------------------ environment
\* A client dials the listener (net.Dial in the tests); connections are
\* numbered in dialing order.
Dial(c) ==
    /\ Alive
    /\ listener = "open"
    /\ conn[c].st = "none"
    /\ \A d \in Conns : d < c => conn[d].st # "none"
    /\ conn' = [conn EXCEPT ![c].st = "dialed"]
    /\ UNCHANGED <<cfgVars, lastErr, listener, ctxDone, log,
                   servePc, serveErr, acceptPc, watchPc, active, gErr, eCtxDone,
                   stopCh, stop, poolVars, panicked, work, auth>>

\* the connection Accept hands out next: the oldest one in the backlog
NextDialed == IF \E c \in Conns : conn[c].st = "dialed"
              THEN {CHOOSE c \in Conns : /\ conn[c].st = "dialed"
                                         /\ \A d \in Conns : conn[d].st = "dialed" => c <= d}
              ELSE {}

\* The caller cancels the context given to Listen/Serve; eCtx derives from it.
CancelCtx ==
    /\ Alive
    /\ ~ctxDone
    /\ ctxDone' = TRUE
    /\ eCtxDone' = (eCtxDone \/ (variant = "errgroup" /\ servePc # "idle"))
    /\ UNCHANGED <<cfgVars, lastErr, listener, conn, log,
                   servePc, serveErr, acceptPc, watchPc, active, gErr,
                   stopCh, stop, poolVars, panicked, work, auth>>

\* The registered handler returns: with nil or an error, and it may have
\* closed the connection itself.
HandlerReturn(c) ==
    /\ Alive
    /\ conn[c].st = "running"
    /\ \E e \in BOOLEAN, cl \in BOOLEAN :
         conn' = [conn EXCEPT ![c].st = "returned", ![c].herr = e,
                              ![c].closed = cl]
    /\ UNCHANGED <<cfgVars, lastErr, listener, ctxDone, log,
                   servePc, serveErr, acceptPc, watchPc, active, gErr, eCtxDone,
                   stopCh, stop, poolVars, panicked, work, auth>>

\* ------------------------------------------------- errgroup-based server
\* errgroup.Group with SetLimit(n): n < 0 means no limit, otherwise at most
\* n goroutines of the group are active.
HasRoom == maxconn < 0 \/ active < maxconn

\* Serve up to the first connections.Go: Atoi, SetLimit, s.stop = make(...)
ServeBegin ==
    /\ Alive
    /\ variant = "errgroup"
    /\ servePc = "idle"
    /\ IF atoiOk
       THEN /\ servePc' = "goAccept"
            /\ stopCh' = "open"
            /\ eCtxDone' = ctxDone
            /\ log' = log \cup {<<"starting", 0>>}
            /\ UNCHANGED serveErr
       ELSE /\ servePc' = "returned"
            /\ serveErr' = "parse"
            /\ UNCHANGED <<stopCh, eCtxDone, log>>
    /\ UNCHANGED <<cfgVars, lastErr, listener, ctxDone, conn,
                   acceptPc, watchPc, active, gErr,
                   stop, poolVars, panicked, work, auth>>

\* connections.Go(acceptConnections): blocks while the group is at its limit
ServeGoAccept ==
    /\ Alive
    /\ servePc = "goAccept"
    /\ HasRoom
    /\ active' = active + 1
    /\ acceptPc' = "accepting"
    /\ servePc' = "goWatch"
    /\ UNCHANGED <<cfgVars, lastErr, listener, ctxDone, conn, log,
                   serveErr, watchPc, gErr, eCtxDone,
                   stopCh, stop, poolVars, panicked, work, auth>>

\* connections.Go(watcher): blocks while the group is at its limit
ServeGoWatch ==
    /\ Alive
    /\ servePc = "goWatch"
    /\ HasRoom
    /\ active' = active + 1
    /\ watchPc' = "selecting"
    /\ servePc' = "wait"
    /\ UNCHANGED <<cfgVars, lastErr, listener, ctxDone, conn, log,
                   serveErr, acceptPc, gErr, eCtxDone,
                   stopCh, stop, poolVars, panicked, work, auth>>

\* return connections.Wait(), then the deferred close(s.stop)
ServeWait ==
    /\ Alive
    /\ servePc = "wait"
    /\ active = 0
    /\ servePc' = "returned"
    /\ serveErr' = gErr
    /\ eCtxDone' = TRUE
    /\ stopCh' = "closed"
    /\ UNCHANGED <<cfgVars, lastErr, listener, ctxDone, conn, log,
                   acceptPc, watchPc, active, gErr,
                   stop, poolVars, panicked, work, auth>>

\* ---- acceptConnections: one iteration of the loop per step
\* faulty variant: the listener-closed error is not told apart from a fatal one
AcceptOutcomeNoClosed(err) ==
    IF err = "timeout" THEN "continue" ELSE "returnErr"

\* How the loop treats an Accept error: a net.Error with Timeout() is
\* retried, net.ErrClosed ends the loop with nil, anything else is returned.
AcceptOutcome(err) ==
    IF err = "timeout" THEN "continue"
    ELSE IF err = "closed" THEN "returnNil"
    ELSE "returnErr"

\* the errors Accept can return while the listener is open: a timeout-class
\* net.Error, or some other error
OpenAcceptErrors == {"timeout", "other"}
\* the error Accept returns once the listener is closed: net.ErrClosed
ClosedAcceptError == "closed"

\* faulty variant: the connection is closed before the handler is called
StartHandlerClosed(r) == [r EXCEPT !.st = "running", !.calls = @ + 1, !.closed = TRUE]

\* handle(connCtx, conn) / Task.Do: the handler is invoked with the connection
StartHandler(r) == [r EXCEPT !.st = "running", !.calls = @ + 1]

\* faulty variant: TryGo starts the closure without looking at the limit
TryGoNoLimit == TRUE

\* connections.TryGo(closure): starts the closure unless the limit is reached
TryGo == HasRoom

\* Accept returned a connection: log it and hand it to TryGo.
AcceptConn(c) ==
    /\ Alive
    /\ acceptPc = "accepting"
    /\ listener = "open"
    /\ c \in NextDialed
    /\ lastErr' = "nil"
    /\ IF TryGo
       THEN /\ active' = active + 1
            /\ conn' = [conn EXCEPT ![c] = StartHandler(@)]
            /\ log' = log \cup {<<"accepted", c>>}
       ELSE /\ conn' = [conn EXCEPT ![c].st = "rejected"]
            /\ log' = log \cup {<<"accepted", c>>, <<"exceedMax", c>>}
            /\ UNCHANGED active
    /\ UNCHANGED <<cfgVars, listener, ctxDone, servePc, serveErr, acceptPc,
                   watchPc, gErr, eCtxDone, stopCh, stop, poolVars, panicked, work, auth>>

\* Accept returned an error.
AcceptError(err) ==
    /\ Alive
    /\ acceptPc = "accepting"
    /\ IF listener = "open" THEN err \in OpenAcceptErrors ELSE err = ClosedAcceptError
    /\ lastErr' = err
    /\ LET out == AcceptOutcome(err) IN
         CASE out = "continue" ->
                /\ log' = log \cup {<<"acceptTimeout", 0>>}
                /\ UNCHANGED <<acceptPc, active, gErr, eCtxDone>>
           [] out = "returnNil" ->
                /\ log' = log \cup {<<"listenerClosed", 0>>}
                /\ acceptPc' = "returned"
                /\ active' = active - 1
                /\ UNCHANGED <<gErr, eCtxDone>>
           [] out = "returnErr" ->
                /\ log' = log \cup {<<"acceptError", 0>>}
                /\ acceptPc' = "returned"
                /\ active' = active - 1
                /\ gErr' = FirstErr(gErr, "accept")
                /\ eCtxDone' = TRUE
    /\ UNCHANGED <<cfgVars, listener, ctxDone, conn, servePc, serveErr,
                   watchPc, stopCh, stop, poolVars, panicked, work, auth>>

\* whether the closure closes the connection after a handler result
ClosureCloses(herr) == TRUE

\* faulty variant: the closure hands the handler's error to the group
ClosureReturnsHandlerError(herr) == IF herr THEN "handler" ELSE "none"

\* what the TryGo closure returns to the group: `return nil`
ClosureReturns(herr) == "none"

\* Rest of the TryGo closure once handle returned: log its error, close the
\* connection (an "already closed" error is not logged), return nil.
ClosureFinish(c) ==
    /\ Alive
    /\ variant = "errgroup"
    /\ conn[c].st = "returned"
    /\ IF ClosureCloses(conn[c].herr)
       THEN /\ conn' = [conn EXCEPT ![c].st = "done", ![c].closed = TRUE]
            /\ log' = log \cup (IF conn[c].herr THEN {<<"handlerError", c>>} ELSE {})
       ELSE /\ conn' = [conn EXCEPT ![c].st = "done"]
            /\ log' = log \cup (IF conn[c].herr THEN {<<"handlerError", c>>} ELSE {})
    /\ active' = active - 1
    /\ gErr' = FirstErr(gErr, ClosureReturns(conn[c].herr))
    /\ eCtxDone' = (eCtxDone \/ ClosureReturns(conn[c].herr) # "none")
    /\ UNCHANGED <<cfgVars, lastErr, listener, ctxDone, servePc, serveErr, acceptPc,
                   watchPc, stopCh, stop, poolVars, panicked, work, auth>>

\* s.listener.Close() as called by the watcher: its error, and the new state
ListenerCloseErr == IF listener = "closed" THEN "closed" ELSE "none"

\* The watcher receives from s.stop (a Stop caller is sending), leaves the
\* loop and returns s.listener.Close().
WatchStop(t) ==
    /\ Alive
    /\ watchPc = "selecting"
    /\ stopCh = "open"
    /\ stop[t] = "send"
    /\ stop' = [stop EXCEPT ![t] = "recv"]
    /\ watchPc' = "returned"
    /\ listener' = "closed"
    /\ gErr' = FirstErr(gErr, ListenerCloseErr)
    /\ eCtxDone' = (eCtxDone \/ ListenerCloseErr # "none")
    /\ active' = active - 1
    /\ UNCHANGED <<cfgVars, lastErr, ctxDone, conn, log, servePc, serveErr, acceptPc,
                   stopCh, poolVars, panicked, work, auth>>

\* The watcher sees eCtx.Done() (the error is context.Canceled, not logged),
\* leaves the loop and returns s.listener.Close().
WatchCtxDone ==
    /\ Alive
    /\ watchPc = "selecting"
    /\ eCtxDone
    /\ watchPc' = "returned"
    /\ listener' = "closed"
    /\ gErr' = FirstErr(gErr, ListenerCloseErr)
    /\ active' = active - 1
    /\ UNCHANGED <<cfgVars, lastErr, ctxDone, conn, log, servePc, serveErr, acceptPc,
                   eCtxDone, stopCh, stop, poolVars, panicked, work, auth>>

\* ---- Stop of the errgroup-based server
\* Stop is called: log, then evaluate s.stop for the send.
StopCall(t) ==
    /\ Alive
    /\ variant = "errgroup"
    /\ t \in Stoppers
    /\ stop[t] = "idle"
    /\ \A u \in Stoppers : u < t => stop[u] # "idle"
    /\ stop' = [stop EXCEPT ![t] = IF stopCh = "nil" THEN "sendNil" ELSE "send"]
    /\ log' = log \cup {<<"stopping", 0>>}
    /\ UNCHANGED <<cfgVars, lastErr, listener, ctxDone, conn, servePc, serveErr, acceptPc,
                   watchPc, active, gErr, eCtxDone, stopCh, poolVars, panicked, work, auth>>

\* what a send on s.stop does when the channel is closed
SendOnClosed == "panic"

\* s.stop <- true on a closed channel
StopSendClosed(t) ==
    /\ Alive
    /\ stop[t] = "send"
    /\ stopCh = "closed"
    /\ IF SendOnClosed = "panic"
       THEN /\ stop' = [stop EXCEPT ![t] = "panicked"]
            /\ panicked' = TRUE
       ELSE /\ stop' = [stop EXCEPT ![t] = "recv"]
            /\ UNCHANGED panicked
    /\ UNCHANGED <<cfgVars, lastErr, listener, ctxDone, conn, log, servePc, serveErr,
                   acceptPc, watchPc, active, gErr, eCtxDone, stopCh, poolVars, work, auth>>

\* The send of one Stop meets the receive (<-s.stop) of another Stop.
StopHandoff(t, u) ==
    /\ Alive
    /\ t # u
    /\ stop[t] = "send"
    /\ stop[u] = "recv"
    /\ stopCh = "open"
    /\ stop' = [stop EXCEPT ![t] = "recv", ![u] = "returned"]
    /\ UNCHANGED <<cfgVars, lastErr, listener, ctxDone, conn, log, servePc, serveErr,
                   acceptPc, watchPc, active, gErr, eCtxDone, stopCh, poolVars,
                   panicked, work, auth>>

\* <-s.stop returns once Serve's deferred close(s.stop) has run.
StopRecvClosed(t) ==
    /\ Alive
    /\ stop[t] = "recv"
    /\ stopCh = "closed"
    /\ stop' = [stop EXCEPT ![t] = "returned"]
    /\ UNCHANGED <<cfgVars, lastErr, listener, ctxDone, conn, log, servePc, serveErr,
                   acceptPc, watchPc, active, gErr, eCtxDone, stopCh, poolVars,
                   panicked, work, auth>>

ErrgroupNext ==
    \/ ServeBegin
    \/ ServeGoAccept
    \/ ServeGoWatch
    \/ ServeWait
    \/ \E c \in Conns : AcceptConn(c)
    \/ \E err \in OpenAcceptErrors \cup {ClosedAcceptError} : AcceptError(err)
    \/ \E c \in Conns : ClosureFinish(c)
    \/ \E t \in Stoppers : WatchStop(t)
    \/ WatchCtxDone
    \/ \E t \in Stoppers : StopCall(t)
    \/ \E t \in Stoppers : StopSendClosed(t)
    \/ \E t, u \in Stoppers : StopHandoff(t, u)
    \/ \E t \in Stoppers : StopRecvClosed(t)

\* ---------------------------------------------- worker-pool based server
\* tasks the pool still has to finish
Outstanding == {c \in Conns : conn[c].st \in {"queued", "running", "returned"}}

\* workers.WorkerPool.Add: run the task on a free worker; when saturated
\* enqueue it or reject it (the pool's policy); reject once stopped.
PoolAdmit ==
    IF poolStopped THEN "error"
    ELSE IF Cardinality(BusyConns) < maxconn THEN "run"
    ELSE IF policy = "queue" THEN "queue"
    ELSE "error"

\* Serve is called.
PoolServeBegin ==
    /\ Alive
    /\ variant = "pool"
    /\ servePc = "idle"
    /\ servePc' = "select"
    /\ UNCHANGED <<cfgVars, lastErr, listener, ctxDone, conn, log, serveErr, acceptPc,
                   watchPc, active, gErr, eCtxDone, stopCh, stop, poolVars,
                   panicked, work, auth>>

\* select { case <-ctx.Done(): return nil (context.Canceled); default: Accept }
PoolSelect ==
    /\ Alive
    /\ servePc = "select"
    /\ servePc' = IF ctxDone THEN "returned" ELSE "accept"
    /\ UNCHANGED <<cfgVars, lastErr, listener, ctxDone, conn, log, serveErr, acceptPc,
                   watchPc, active, gErr, eCtxDone, stopCh, stop, poolVars,
                   panicked, work, auth>>

\* Accept returned a connection: NewTask(s.handle, conn), AddWorker.
PoolAcceptConn(c) ==
    /\ Alive
    /\ servePc = "accept"
    /\ listener = "open"
    /\ c \in NextDialed
    /\ lastErr' = "nil"
    /\ CASE PoolAdmit = "run" ->
              /\ conn' = [conn EXCEPT ![c] = StartHandler(@)]
              /\ log' = log \cup {<<"accepted", c>>}
              /\ servePc' = "select"
              /\ UNCHANGED serveErr
         [] PoolAdmit = "queue" ->
              /\ conn' = [conn EXCEPT ![c].st = "queued"]
              /\ log' = log \cup {<<"accepted", c>>}
              /\ servePc' = "select"
              /\ UNCHANGED serveErr
         [] PoolAdmit = "error" ->
              /\ conn' = [conn EXCEPT ![c].st = "rejected"]
              /\ log' = log \cup {<<"accepted", c>>, <<"addError", c>>}
              /\ servePc' = "returned"
              /\ serveErr' = "add"
    /\ UNCHANGED <<cfgVars, listener, ctxDone, acceptPc, watchPc, active, gErr,
                   eCtxDone, stopCh, stop, poolVars, panicked, work, auth>>

\* Accept returned an error.
PoolAcceptError(err) ==
    /\ Alive
    /\ servePc = "accept"
    /\ IF listener = "open" THEN err \in OpenAcceptErrors ELSE err = ClosedAcceptError
    /\ lastErr' = err
    /\ LET out == AcceptOutcome(err) IN
         CASE out = "continue" ->
                /\ log' = log \cup {<<"acceptTimeout", 0>>}
                /\ servePc' = "select"
                /\ UNCHANGED serveErr
           [] out = "returnNil" ->
                /\ log' = log \cup {<<"listenerClosed", 0>>}
                /\ servePc' = "returned"
                /\ UNCHANGED serveErr
           [] out = "returnErr" ->
                /\ servePc' = "returned"
                /\ serveErr' = "accept"
                /\ UNCHANGED log
    /\ UNCHANGED <<cfgVars, listener, ctxDone, conn, acceptPc, watchPc, active,
                   gErr, eCtxDone, stopCh, stop, poolVars, panicked, work, auth>>

\* A worker becomes free and takes a queued task: Task.Do calls the handler.
PoolStart(c) ==
    /\ Alive
    /\ conn[c].st = "queued"
    /\ Cardinality(BusyConns) < maxconn
    /\ conn' = [conn EXCEPT ![c] = StartHandler(@)]
    /\ UNCHANGED <<cfgVars, lastErr, listener, ctxDone, log, servePc, serveErr, acceptPc,
                   watchPc, active, gErr, eCtxDone, stopCh, stop, poolVars,
                   panicked, work, auth>>

\* faulty variant: OnFinish closes the connection only when the handler succeeded
OnFinishClosesOnSuccess(herr) == ~herr

\* whether OnFinish closes the connection after a handler result
OnFinishCloses(herr) == TRUE

\* Task.OnFinish: log the handler error, close the connection and log any
\* close error.
OnFinish(c) ==
    /\ Alive
    /\ variant = "pool"
    /\ conn[c].st = "returned"
    /\ IF OnFinishCloses(conn[c].herr)
       THEN /\ conn' = [conn EXCEPT ![c].st = "done", ![c].closed = TRUE]
            /\ log' = log \cup (IF conn[c].herr THEN {<<"handlerError", c>>} ELSE {})
                          \cup (IF conn[c].closed THEN {<<"closeError", c>>} ELSE {})
       ELSE /\ conn' = [conn EXCEPT ![c].st = "done"]
            /\ log' = log \cup (IF conn[c].herr THEN {<<"handlerError", c>>} ELSE {})
    /\ UNCHANGED <<cfgVars, lastErr, listener, ctxDone, servePc, serveErr, acceptPc,
                   watchPc, active, gErr, eCtxDone, stopCh, stop, poolVars,
                   panicked, work, auth>>

\* whether Listen's goroutine calls Stop (again) after n runs of it
CtxLoopAgain(n) == TRUE

\* faulty variant: Stop returns the error of s.listener.Close()
AfterListenerCloseReturns(closeFailed) ==
    IF closeFailed THEN "returnedErr" ELSE "stopPool"

\* where Stop goes on after s.listener.Close(): to s.workers.Stop(ctx),
\* whether Close failed or not
AfterListenerClose(closeFailed) == "stopPool"

\* First part of Stop, up to the call of s.workers.Stop: s.listener.Close(),
\* whose error (the listener is closed already) is logged and not returned.
StopEnter(t) ==
    /\ listener' = "closed"
    /\ log' = log \cup (IF listener = "closed" THEN {<<"stopCloseError", 0>>} ELSE {})
    /\ stop' = [stop EXCEPT ![t] = AfterListenerClose(listener = "closed")]

\* Listen's goroutine: for { <-ctx.Done(); s.Stop(ctx) }
CtxStopCall ==
    /\ Alive
    /\ variant = "pool"
    /\ ctxDone
    /\ stop[CtxThread] \in {"idle", "returned"}
    /\ CtxLoopAgain(ctxStops)
    /\ ctxStops < MaxCtxStops
    /\ ctxStops' = ctxStops + 1
    /\ StopEnter(CtxThread)
    /\ UNCHANGED <<cfgVars, lastErr, ctxDone, conn, servePc, serveErr,
                   acceptPc, watchPc, active, gErr, eCtxDone, stopCh,
                   poolStopped, loggerDown, panicked, work, auth>>

\* Stop is called by the embedding program, again once a call has returned.
PoolStopCall(t) ==
    /\ Alive
    /\ variant = "pool"
    /\ t \in Stoppers
    /\ stop[t] = "idle"
    /\ \A u \in Stoppers : u < t => stop[u] \in {"returned", "returnedErr"}
    /\ StopEnter(t)
    /\ UNCHANGED <<cfgVars, lastErr, ctxDone, conn, servePc, serveErr,
                   acceptPc, watchPc, active, gErr, eCtxDone, stopCh, poolVars,
                   panicked, work, auth>>

\* Stop: s.workers.Stop(ctx) returns when the pool has drained.
StopDrain(t) ==
    /\ Alive
    /\ stop[t] = "stopPool"
    /\ Outstanding = {}
    /\ poolStopped' = TRUE
    /\ stop' = [stop EXCEPT ![t] = "shutdownLogger"]
    /\ UNCHANGED <<cfgVars, lastErr, listener, ctxDone, conn, log, servePc, serveErr,
                   acceptPc, watchPc, active, gErr, eCtxDone, stopCh, ctxStops,
                   loggerDown, panicked, work, auth>>

\* End of Stop: s.Logger.Shutdown(), whose error is returned; Listen's
\* goroutine panics on it.
StopShutdown(t) ==
    /\ Alive
    /\ stop[t] = "shutdownLogger"
    /\ loggerDown' = TRUE
    /\ \E failed \in BOOLEAN :
         IF failed
         THEN /\ stop' = [stop EXCEPT ![t] = "returnedErr"]
              /\ panicked' = (t = CtxThread)
         ELSE /\ stop' = [stop EXCEPT ![t] = "returned"]
              /\ UNCHANGED panicked
    /\ UNCHANGED <<cfgVars, lastErr, listener, ctxDone, conn, log, servePc, serveErr,
                   acceptPc, watchPc, active, gErr, eCtxDone, stopCh, ctxStops,
                   poolStopped, work, auth>>

PoolNext ==
    \/ PoolServeBegin
    \/ PoolSelect
    \/ \E c \in Conns : PoolAcceptConn(c)
    \/ \E err \in OpenAcceptErrors \cup {ClosedAcceptError} : PoolAcceptError(err)
    \/ \E c \in Conns : PoolStart(c)
    \/ \E c \in Conns : OnFinish(c)
    \/ CtxStopCall
    \/ \E t \in Stoppers : PoolStopCall(t)
    \/ \E t \in StopThreads : StopDrain(t)
    \/ \E t \in StopThreads : StopShutdown(t)

EnvNext ==
    \/ \E c \in Conns : Dial(c)
    \/ CancelCtx
    \/ \E c \in Conns : HandlerReturn(c)

Next == EnvNext \/ ErrgroupNext

\* the errgroup-based server
Spec == Init /\ [][Next]_vars

NextPool == EnvNext \/ PoolNext

\* the worker-pool based server
SpecPool == InitPool /\ [][NextPool]_vars

\* ------------------------------------------------- ssh: WorkConnect
\* The peer opens a channel: it arrives on chans (in order of opening).
PeerOpen(c) ==
    /\ ~work.closed
    /\ work.task[c] = "unopened"
    /\ \A d \in Chans : d < c => work.task[d] # "unopened"
    /\ \E t \in ChanTypes :
         work' = [work EXCEPT !.task[c] = "pending", !.typ[c] = t]
    /\ UNCHANGED <<serverVars, auth>>

\* The connection ends: the transport closes chans.
PeerClose ==
    /\ ~work.closed
    /\ work' = [work EXCEPT !.closed = TRUE]
    /\ UNCHANGED <<serverVars, auth>>

\* WorkConnect is called on a connection.
WorkBegin ==
    /\ work.pc = "idle"
    /\ work' = [work EXCEPT !.pc = "ranging"]
    /\ UNCHANGED <<serverVars, auth>>

\* the channel the range loop receives next
NextPending == IF \E c \in Chans : work.task[c] = "pending"
               THEN {CHOOSE c \in Chans : /\ work.task[c] = "pending"
                                          /\ \A d \in Chans : work.task[d] = "pending" => c <= d}
               ELSE {}

\* s.ChannelHandlers[newChannel.ChannelType()], else s.DefaultChannelHandler
LookupChannelHandler(t) == IF t \in ChannelHandlers THEN t ELSE "default"

\* One iteration of `for newChannel := range chans`: pick the handler, count
\* the channel, waitGroup.Add(1) and start the goroutine.
WorkDispatch(c) ==
    /\ work.pc = "ranging"
    /\ c \in NextPending
    /\ work' = [work EXCEPT !.task[c] = "running",
                            !.id[c] = work.chanCounter,
                            !.handler[c] = LookupChannelHandler(work.typ[c]),
                            !.calls[c] = @ + 1,
                            !.chanCounter = @ + 1,
                            !.wg = @ + 1]
    /\ UNCHANGED <<serverVars, auth>>

\* The range loop ends: chans is closed and drained.
WorkRangeEnd ==
    /\ work.pc = "ranging"
    /\ work.closed
    /\ NextPending = {}
    /\ work' = [work EXCEPT !.pc = "waiting"]
    /\ UNCHANGED <<serverVars, auth>>

\* faulty variant: a handler's error is dropped instead of logged
HandlerErrorDropped(err) == FALSE

\* `if err := handler(...); err != nil { s.logger.Error(...) }`
HandlerErrorLogged(err) == err

\* faulty variant: the goroutines share one context variable with the loop
\* and find the index of the iteration made last
ChannelIDOfLoop(c) == work.chanCounter - 1

\* chanCtx.Value(contextKeyChannelID) in the goroutine of channel c: chanCtx
\* is declared in the loop body, so the closure holds the context made in
\* its own iteration, with the value chanCounter had then
ChannelID(c) == work.id[c]

\* The goroutine of a channel: the handler runs with chanCtx and returns, its
\* error is logged, waitGroup.Done().
ChanTaskDone(c) ==
    /\ work.task[c] = "running"
    /\ \E err \in BOOLEAN :
         work' = [work EXCEPT !.task[c] = "done",
                              !.seen[c] = ChannelID(c),
                              !.cret[c] = IF err THEN "err" ELSE "nil",
                              !.logged = IF HandlerErrorLogged(err) THEN @ \cup {c} ELSE @,
                              !.wg = @ - 1]
    /\ UNCHANGED <<serverVars, auth>>

\* faulty variant: WorkConnect returns without waiting for the channel goroutines
WaitGroupNoWait == TRUE

\* waitGroup.Wait() returns when the counter is zero
WaitGroupReady == work.wg = 0

\* waitGroup.Wait(); return nil
WorkWait ==
    /\ work.pc = "waiting"
    /\ WaitGroupReady
    /\ work' = [work EXCEPT !.pc = "returned", !.ret = "nil"]
    /\ UNCHANGED <<serverVars, auth>>

InitWork ==
    /\ InitServer
    /\ variant = "errgroup"
    /\ maxconn = -1
    /\ work = WorkIdle
    /\ auth = AuthIdle

NextWork ==
    \/ \E c \in Chans : PeerOpen(c)
    \/ PeerClose
    \/ WorkBegin
    \/ \E c \in Chans : WorkDispatch(c)
    \/ WorkRangeEnd
    \/ \E c \in Chans : ChanTaskDone(c)
    \/ WorkWait

\* the channel dispatch of one ssh connection
SpecWork == InitWork /\ [][NextWork]_vars

\* ------------------------------------- ssh: DefaultChannelHandler
\* a channel whose goroutine is inside DefaultChannelHandler
InDefault(c) == work.task[c] = "running" /\ work.handler[c] = "default"

\* requests of channel c that are in a given state
ReqsOf(c, st) == {r \in Reqs : work.req[r].ch = c /\ work.req[r].st = st}

\* The goroutine of a channel whose type has a registered handler: the handler
\* (code of the embedding program) returns nil or an error.
RegisteredChanDone(c) ==
    /\ work.handler[c] # "default"
    /\ ChanTaskDone(c)

\* accepted, requests, err := channel.Accept(); on an error the handler
\* returns it, and the channel's goroutine logs it and ends
\* (waitGroup.Done()).
ChannelAccept(c) ==
    /\ InDefault(c)
    /\ work.chpc[c] = "none"
    /\ \E err \in BOOLEAN :
         work' = IF err
                 THEN [work EXCEPT !.chpc[c] = "returned", !.cret[c] = "err",
                                   !.accepted[c] = "failed",
                                   !.task[c] = "done",
                                   !.logged = IF HandlerErrorLogged(TRUE)
                                              THEN @ \cup {c} ELSE @,
                                   !.wg = @ - 1]
                 ELSE [work EXCEPT !.chpc[c] = "ranging", !.accepted[c] = "yes"]
    /\ UNCHANGED <<serverVars, auth>>

\* The peer sends a request on an accepted channel: it arrives on the
\* channel's request stream (requests are numbered in sending order).
PeerRequest(r, c) ==
    /\ work.accepted[c] = "yes"
    /\ ~work.rclosed[c]
    /\ work.req[r].st = "unsent"
    /\ \A q \in Reqs : q < r => work.req[q].st # "unsent"
    /\ \E t \in ReqTypes, w \in BOOLEAN :
         work' = [work EXCEPT !.req[r] = [NoReq EXCEPT !.st = "queued", !.ch = c,
                                                       !.typ = t, !.want = w]]
    /\ UNCHANGED <<serverVars, auth>>

\* The peer closes the channel (or the connection ends): the transport
\* closes the channel's request stream.
PeerCloseChannel(c) ==
    /\ work.accepted[c] = "yes"
    /\ ~work.rclosed[c]
    /\ work' = [work EXCEPT !.rclosed[c] = TRUE]
    /\ UNCHANGED <<serverVars, auth>>

\* the request the range loop of channel c receives next
NextQueued(c) == IF ReqsOf(c, "queued") # {}
                 THEN {CHOOSE r \in ReqsOf(c, "queued") :
                          \A q \in ReqsOf(c, "queued") : r <= q}
                 ELSE {}

\* faulty variant: every request goes to the default request handler
LookupRequestHandlerDefault(t) == "default"

\* s.RequestHandlers[req.Type], else s.DefaultRequestHandler
LookupRequestHandler(t) == IF t \in RequestHandlers THEN t ELSE "default"

\* One iteration of `for req := range requests`: pick the handler,
\* waitGroup.Add(1) and start the goroutine.
ReqDispatch(r) ==
    /\ LET c == work.req[r].ch IN
         /\ c \in Chans
         /\ InDefault(c)
         /\ work.chpc[c] = "ranging"
         /\ r \in NextQueued(c)
         /\ work' = [work EXCEPT !.req[r].st = "spawned",
                                 !.req[r].handler = LookupRequestHandler(work.req[r].typ),
                                 !.rwg[c] = @ + 1]
    /\ UNCHANGED <<serverVars, auth>>

\* faulty variant: the default request handler returns without replying
DefaultReplyNone(want) == [replies |-> 0, reply |-> "none"]

\* req.Reply(false, nil) of DefaultRequestHandler: the transport sends the
\* negative reply when the peer asked for one, and nothing otherwise
DefaultReply(want) == IF want THEN [replies |-> 1, reply |-> "false"]
                      ELSE [replies |-> 0, reply |-> "none"]

\* The goroutine of a request: the handler is invoked with the request;
\* DefaultRequestHandler logs it, replies and returns nil, a registered
\* handler (code of the embedding program) returns nil or an error; the error
\* is logged; waitGroup.Done().
ReqHandle(r) ==
    /\ work.req[r].st = "spawned"
    /\ LET c == work.req[r].ch
           h == work.req[r].handler
           rep == IF h = "default" THEN DefaultReply(work.req[r].want)
                  ELSE [replies |-> 0, reply |-> "none"]
       IN \E err \in IF h = "default" THEN {FALSE} ELSE BOOLEAN :
            work' = [work EXCEPT !.req[r].st = "done",
                                 !.req[r].calls = @ + 1,
                                 !.req[r].replies = @ + rep.replies,
                                 !.req[r].reply = rep.reply,
                                 !.req[r].err = err,
                                 !.rlogged = IF HandlerErrorLogged(err)
                                             THEN @ \cup {r} ELSE @,
                                 !.rwg[c] = @ - 1]
    /\ UNCHANGED <<serverVars, auth>>

\* The range loop over requests ends: the stream is closed and drained.
ReqRangeEnd(c) ==
    /\ InDefault(c)
    /\ work.chpc[c] = "ranging"
    /\ work.rclosed[c]
    /\ NextQueued(c) = {}
    /\ work' = [work EXCEPT !.chpc[c] = "waiting"]
    /\ UNCHANGED <<serverVars, auth>>

\* faulty variant: the handler returns without waiting for its request tasks
ReqWaitGroupNoWait(c) == TRUE

\* waitGroup.Wait() of DefaultChannelHandler returns when its counter is zero
ReqWaitGroupReady(c) == work.rwg[c] = 0

\* waitGroup.Wait(); return nil: DefaultChannelHandler returns, and the
\* channel's goroutine ends (nothing to log, waitGroup.Done()).
ChanWait(c) ==
    /\ InDefault(c)
    /\ work.chpc[c] = "waiting"
    /\ ReqWaitGroupReady(c)
    /\ work' = [work EXCEPT !.chpc[c] = "returned", !.cret[c] = "nil",
                            !.task[c] = "done",
                            !.logged = IF HandlerErrorLogged(FALSE)
                                       THEN @ \cup {c} ELSE @,
                            !.wg = @ - 1]
    /\ UNCHANGED <<serverVars, auth>>

\* The channels the peer opens in the two-level model; two let one channel be
\* dispatched while the other one is inside its handler (the one-level model
\* SpecWork explores more channels).
DispatchChans == {1, 2}

NextDispatch ==
    \/ \E c \in DispatchChans : PeerOpen(c)
    \/ PeerClose
    \/ WorkBegin
    \/ \E c \in Chans : WorkDispatch(c)
    \/ WorkRangeEnd
    \/ \E c \in Chans : RegisteredChanDone(c)
    \/ \E c \in Chans : ChannelAccept(c)
    \/ \E r \in Reqs, c \in Chans : PeerRequest(r, c)
    \/ \E c \in Chans : PeerCloseChannel(c)
    \/ \E r \in Reqs : ReqDispatch(r)
    \/ \E r \in Reqs : ReqHandle(r)
    \/ \E c \in Chans : ReqRangeEnd(c)
    \/ \E c \in Chans : ChanWait(c)
    \/ WorkWait

\* the two-level dispatch of one ssh connection: channels, and the requests
\* of the channels served by DefaultChannelHandler
SpecDispatch == InitWork /\ [][NextDispatch]_vars

\* -------------------------------- ssh: keystore and authentication
\* the error values of the package
ErrNil == [kind |-> "nil", reason |-> "none"]
ErrKeyNotSupported == [kind |-> "ErrKeyNotSupported", reason |-> "none"]
ErrAuthFailed == [kind |-> "ErrAuthFailed", reason |-> "none"]
ErrAuthFailedReason(reason) == [kind |-> "ErrAuthFailedReason", reason |-> reason]

\* Unwrap of an error value: ErrAuthFailedReason unwraps to ErrAuthFailed,
\* the errors made with errors.New do not unwrap
Unwrap(e) == IF e.kind = "ErrAuthFailedReason" THEN ErrAuthFailed ELSE ErrNil

\* errors.Is(e, ErrAuthFailed): e is ErrAuthFailed or unwraps to it
IsAuthFailed(e) == e = ErrAuthFailed \/ Unwrap(e) = ErrAuthFailed

\* a.Marshal(): the wire encoding carries the algorithm name and the key
Marshal(k) == <<k.type, k.blob>>

\* faulty variant: the keys are compared by their key material alone
comparePublickeysBytesOnly(a, b) == a.blob = b.blob

\* sshKeystore.comparePublickeys
comparePublickeys(a, b) ==
    IF a.type # b.type THEN FALSE ELSE Marshal(a) = Marshal(b)

\* faulty variant: a missing record is reported as an error of its own
CheckKnownHostUnknownUser(userKeys, u, k) ==
    IF userKeys[u] = NoKey
    THEN [ok |-> FALSE, err |-> "unknown user"]
    ELSE [ok |-> comparePublickeys(userKeys[u], k), err |-> "nil"]

\* sshKeystore.CheckKnownHost: (ok, err)
CheckKnownHost(userKeys, u, k) ==
    IF userKeys[u] = NoKey
    THEN [ok |-> FALSE, err |-> "nil"]
    ELSE [ok |-> comparePublickeys(userKeys[u], k), err |-> "nil"]

\* faulty variant: every key algorithm is let through to the keystore
KeyTypeAny(supported, k) == TRUE

\* slices.Contains(s.supportedKeyTypes, pubKey.Type())
KeyTypeSupported(supported, k) == k.type \in supported

\* ssh.FingerprintSHA256: the tagged hash of the key's wire encoding
FingerprintSHA256(k) == <<"SHA256", Marshal(k)>>

\* faulty variant: the permissions carry neither fingerprint nor extensions
PermissionsEmpty(k) == {[fp |-> <<>>, x11 |-> "false", agent |-> "false"]}

\* the *ssh.Permissions granted on success ({} stands for nil)
Permissions(k) == {[fp |-> FingerprintSHA256(k), x11 |-> "true", agent |-> "true"]}

\* Server.PublicKeyCallback: permissions, error, and whether it called
\* CheckKnownHost
PublicKeyCallback(supported, userKeys, u, k) ==
    IF ~KeyTypeSupported(supported, k)
    THEN [perm |-> {}, err |-> ErrKeyNotSupported, consulted |-> FALSE]
    ELSE LET chk == CheckKnownHost(userKeys, u, k) IN
         IF chk.err # "nil" /\ chk.err # "ErrNoRows"
         THEN [perm |-> {}, err |-> ErrAuthFailedReason(chk.err), consulted |-> TRUE]
         ELSE IF ~chk.ok \/ chk.err = "ErrNoRows"
         THEN [perm |-> {}, err |-> ErrAuthFailed, consulted |-> TRUE]
         ELSE [perm |-> Permissions(k), err |-> ErrNil, consulted |-> TRUE]

\* faulty variant: password authentication grants access
PasswordAuthGrants(u, password) ==
    [perm |-> {[fp |-> <<>>, x11 |-> "true", agent |-> "true"]}, err |-> ErrNil,
     consulted |-> FALSE]

\* Server.PasswordAuth
PasswordAuth(u, password) ==
    [perm |-> {}, err |-> ErrAuthFailedReason("authentication method not supported"),
     consulted |-> FALSE]

\* Server.NoAuthCallback
NoAuthCallback(u) ==
    [perm |-> {}, err |-> ErrAuthFailedReason("authentication method not supported"),
     consulted |-> FALSE]

\* Server.KeyboardInteractiveAuth
KeyboardInteractiveAuth(u, challenge) ==
    [perm |-> {}, err |-> ErrAuthFailedReason("authentication method not supported"),
     consulted |-> FALSE]

\* what the keystore holds for user u when key k is presented
KeystoreRecord(u, k) ==
    IF k = NoKey THEN "none"
    ELSE IF auth.userKeys[u] = NoKey THEN "absent"
    ELSE IF auth.userKeys[u] = k THEN "match" ELSE "mismatch"

\* the result of a callback as the transport sees it, with the inputs of the
\* call and the state of the keystore at the time of the call
Result(method, u, k, out) ==
    [method |-> method, user |-> u, key |-> k, record |-> KeystoreRecord(u, k),
     perm |-> out.perm, err |-> out.err, consulted |-> out.consulted,
     ok |-> FALSE, signer |-> NoSigner]

\* the result of a keystore method, with the inputs of the call and the state
\* of the keystore at the time of the call
KeystoreResult(method, u, k, ok, err, signer) ==
    [method |-> method, user |-> u, key |-> k, record |-> KeystoreRecord(u, k),
     perm |-> {}, err |-> err, consulted |-> FALSE, ok |-> ok, signer |-> signer]

\* faulty variant: a key is stored only for an identifier that has none
PutKnownHostIfAbsent(userKeys, u, k) ==
    IF userKeys[u] = NoKey THEN [userKeys EXCEPT ![u] = k] ELSE userKeys

\* ks.userKeys[hostIdentifier] = key
PutKnownHost(userKeys, u, k) == [userKeys EXCEPT ![u] = k]

\* ks.AddKnownHost(ctx, hostIdentifier, key): Lock, store, Unlock, return nil
AddKnownHost(u, k) ==
    /\ auth' = [auth EXCEPT !.userKeys = PutKnownHost(@, u, k),
                            !.res = KeystoreResult("AddKnownHost", u, k, FALSE,
                                                   ErrNil, NoSigner)]
    /\ UNCHANGED <<serverVars, work>>

\* the transport calls PublicKeyCallback for user u presenting key k
CallPublicKey(u, k) ==
    /\ auth' = [auth EXCEPT !.res = Result("publickey", u, k,
                   PublicKeyCallback(auth.supported, auth.userKeys, u, k))]
    /\ UNCHANGED <<serverVars, work>>

\* the transport calls PasswordAuth
CallPassword(u, password) ==
    /\ auth' = [auth EXCEPT !.res = Result("password", u, NoKey, PasswordAuth(u, password))]
    /\ UNCHANGED <<serverVars, work>>

\* the transport calls NoAuthCallback
CallNoAuth(u) ==
    /\ auth' = [auth EXCEPT !.res = Result("none", u, NoKey, NoAuthCallback(u))]
    /\ UNCHANGED <<serverVars, work>>

\* the transport calls KeyboardInteractiveAuth
CallKeyboardInteractive(u, challenge) ==
    /\ auth' = [auth EXCEPT !.res = Result("keyboard-interactive", u, NoKey,
                   KeyboardInteractiveAuth(u, challenge))]
    /\ UNCHANGED <<serverVars, work>>

\* a server configured with some list of supported key algorithms and an
\* empty keystore
InitAuth ==
    /\ InitServer
    /\ variant = "errgroup"
    /\ maxconn = -1
    /\ work = WorkIdle
    /\ \E sup \in SUBSET KeyTypes : auth = [AuthIdle EXCEPT !.supported = sup]

NextAuth ==
    \/ \E u \in Users, k \in Keys : AddKnownHost(u, k)
    \/ \E u \in Users, k \in Keys : CallPublicKey(u, k)
    \/ \E u \in Users, p \in KeyBlobs : CallPassword(u, p)
    \/ \E u \in Users : CallNoAuth(u)
    \/ \E u \in Users, q \in KeyBlobs : CallKeyboardInteractive(u, q)

\* the authentication callbacks over a keystore that changes
SpecAuth == InitAuth /\ [][NextAuth]_vars

\* ------------------------------------------- ssh: keystore methods
ErrNoHostKey == [kind |-> "ErrNoHostKey", reason |-> "none"]

\* the error of ssh.ParsePrivateKey on malformed key material
ErrParse == [kind |-> "parse", reason |-> "none"]

\* ssh.ParsePrivateKey(pemBytes): the signer of the encoded key, or an error
ParsePrivateKey(m) ==
    IF m.valid THEN [signer |-> Signer(m.key), err |-> ErrNil]
    ELSE [signer |-> NoSigner, err |-> ErrParse]

\* faulty variant: the host key is replaced by whatever the parser returned
SetHostKeyStoresAlways(hostKey, m) ==
    [hostKey |-> ParsePrivateKey(m).signer, err |-> ParsePrivateKey(m).err]

\* sshKeystore.SetHostKey: the host key after the call, and the error returned
SetHostKey(hostKey, m) ==
    LET p == ParsePrivateKey(m) IN
    IF p.err # ErrNil THEN [hostKey |-> hostKey, err |-> p.err]
    ELSE [hostKey |-> p.signer, err |-> ErrNil]

\* faulty variant: the host key is returned as it is, set or not
GetHostKeyUnchecked(hostKey) == [key |-> hostKey, err |-> ErrNil]

\* sshKeystore.GetHostKey: (key, err)
GetHostKey(hostKey) ==
    IF hostKey = NoSigner THEN [key |-> NoSigner, err |-> ErrNoHostKey]
    ELSE [key |-> hostKey, err |-> ErrNil]

\* faulty variant: a lookup leaves the presented key behind in the map
CheckKnownHostRemembers(userKeys, u, k) == [userKeys EXCEPT ![u] = k]

\* the map after CheckKnownHost: `knownKey, ok := ks.userKeys[hostIdentifier]`
\* under the read lock only reads it
CheckKnownHostKeeps(userKeys, u, k) == userKeys

\* ks.SetHostKey(ctx, pemBytes)
CallSetHostKey(m) ==
    /\ LET out == SetHostKey(auth.hostKey, m) IN
         auth' = [auth EXCEPT !.hostKey = out.hostKey,
                              !.material = IF out.err = ErrNil THEN m ELSE @,
                              !.res = KeystoreResult("SetHostKey", 0, NoKey,
                                                     out.err = ErrNil, out.err, NoSigner)]
    /\ UNCHANGED <<serverVars, work>>

\* ks.GetHostKey(ctx)
CallGetHostKey ==
    /\ LET out == GetHostKey(auth.hostKey) IN
         auth' = [auth EXCEPT !.res = KeystoreResult("GetHostKey", 0, NoKey,
                                                     out.err = ErrNil, out.err, out.key)]
    /\ UNCHANGED <<serverVars, work>>

\* ks.CheckKnownHost(ctx, hostIdentifier, key)
CallCheckKnownHost(u, k) ==
    /\ LET chk == CheckKnownHost(auth.userKeys, u, k) IN
         auth' = [auth EXCEPT !.userKeys = CheckKnownHostKeeps(@, u, k),
                              !.res = KeystoreResult("CheckKnownHost", u, k, chk.ok,
                                         IF chk.err = "nil" THEN ErrNil
                                         ELSE [kind |-> chk.err, reason |-> "none"],
                                         NoSigner)]
    /\ UNCHANGED <<serverVars, work>>

\* a keystore with an empty map whose host key is unset (a keystore value
\* built in the package, as the tests do) or parsed by NewKeystore
InitKeystore ==
    /\ InitServer
    /\ variant = "errgroup"
    /\ maxconn = -1
    /\ work = WorkIdle
    /\ \E m \in {NoMaterial} \cup {x \in Materials : x.valid} :
         auth = [AuthIdle EXCEPT !.hostKey = ParsePrivateKey(m).signer,
                                 !.material = m]

NextKeystore ==
    \/ \E m \in Materials : CallSetHostKey(m)
    \/ CallGetHostKey
    \/ \E u \in Users, k \in Keys : AddKnownHost(u, k)
    \/ \E u \in Users, k \in Keys : CallCheckKnownHost(u, k)

\* the methods of one keystore, called one after the other
SpecKeystore == InitKeystore /\ [][NextKeystore]_vars

\* ------------------------------------------- ssh: the keystore's RWMutex
\* the calls the concurrent goroutines make: one host identifier, two keys of
\* one algorithm, well-formed material for two host keys and malformed material
RaceUser == 1
RaceKeys == {[type |-> "ssh-ed25519", blob |-> b] : b \in {1, 2}}
RaceMaterials == {[valid |-> TRUE, key |-> 1], [valid |-> TRUE, key |-> 2],
                  [valid |-> FALSE, key |-> 1]}
KsCalls ==
    {[name |-> "SetHostKey", key |-> NoKey, m |-> m] : m \in RaceMaterials}
    \cup {[name |-> "AddKnownHost", key |-> k, m |-> NoMaterial] : k \in RaceKeys}
    \cup {[name |-> "GetHostKey", key |-> NoKey, m |-> NoMaterial]}
    \cup {[name |-> "CheckKnownHost", key |-> [type |-> "ssh-ed25519", blob |-> 1],
           m |-> NoMaterial]}

\* the methods that take ks.Lock(), the others take ks.RLock()
IsWriter(c) == c.name \in {"SetHostKey", "AddKnownHost"}

\* ks.RLock() returns: no writer holds or waits for the lock
RLockAdmits(l) == l.writer = 0

\* ks.Lock() passes rw.w: no other writer holds or waits for the lock; from
\* here on RLock blocks
LockAnnounces(l) == l.writer = 0

\* faulty variant: the writer does not wait for the readers to leave
LockAdmitsAmongReaders(l) == TRUE

\* ks.Lock() returns: the readers that held the lock have left
LockAdmits(l) == l.readers = 0

\* hostKey and userKeys after the write of call c
KsWritten(hostKey, userKeys, c) ==
    IF c.name = "SetHostKey"
    THEN [hostKey |-> ParsePrivateKey(c.m).signer, userKeys |-> userKeys]
    ELSE [hostKey |-> hostKey, userKeys |-> PutKnownHost(userKeys, RaceUser, c.key)]

\* goroutine t enters a keystore method. SetHostKey parses the material
\* before it takes the lock and returns the error of malformed material at
\* once; every other call goes on to RLock or Lock.
KsCall(t, c) ==
    /\ auth.ks.thr[t].pc = "idle"
    /\ auth.ks.ncalls < MaxCalls
    /\ auth' = [auth EXCEPT
                  !.ks.ncalls = @ + 1,
                  !.ks.thr[t] =
                      IF c.name = "SetHostKey" /\ ParsePrivateKey(c.m).err # ErrNil
                      THEN [pc |-> "idle", call |-> NoCall]
                      ELSE [pc |-> IF IsWriter(c) THEN "wantW" ELSE "wantR", call |-> c]]
    /\ UNCHANGED <<serverVars, work>>

\* ks.RLock() returns in GetHostKey or CheckKnownHost
KsRLock(t) ==
    /\ auth.ks.thr[t].pc = "wantR"
    /\ RLockAdmits(auth.ks.lock)
    /\ auth' = [auth EXCEPT !.ks.thr[t].pc = "inR",
                            !.ks.lock.readers = @ + 1]
    /\ UNCHANGED <<serverVars, work>>

\* the read of hostKey or of userKeys[hostIdentifier], ks.RUnlock() and the
\* return; a read while a writer is between Lock and Unlock is a data race
KsReadRUnlock(t) ==
    /\ auth.ks.thr[t].pc = "inR"
    /\ auth' = [auth EXCEPT
                  !.ks.thr[t] = [pc |-> "idle", call |-> NoCall],
                  !.ks.lock.readers = @ - 1,
                  !.ks.raced = @ \/ \E s \in Threads : auth.ks.thr[s].pc = "inW"]
    /\ UNCHANGED <<serverVars, work>>

\* ks.Lock() in SetHostKey or AddKnownHost has passed the writers' mutex
KsLockPending(t) ==
    /\ auth.ks.thr[t].pc = "wantW"
    /\ LockAnnounces(auth.ks.lock)
    /\ auth' = [auth EXCEPT !.ks.thr[t].pc = "pendW",
                            !.ks.lock.writer = t]
    /\ UNCHANGED <<serverVars, work>>

\* ks.Lock() returns in SetHostKey or AddKnownHost
KsLock(t) ==
    /\ auth.ks.thr[t].pc = "pendW"
    /\ LockAdmits(auth.ks.lock)
    /\ auth' = [auth EXCEPT
                  !.ks.thr[t].pc = "inW",
                  !.ks.serial = KsWritten(@.hostKey, @.userKeys, auth.ks.thr[t].call)]
    /\ UNCHANGED <<serverVars, work>>

\* the assignment to hostKey or to userKeys[hostIdentifier], ks.Unlock() and
\* the return. An assignment made while another goroutine is between its
\* lock and its unlock is a data race: the write may be lost.
KsWriteUnlock(t) ==
    /\ auth.ks.thr[t].pc = "inW"
    /\ LET c == auth.ks.thr[t].call
           racy == \/ auth.ks.lock.readers > 0
                   \/ \E s \in Threads \ {t} : auth.ks.thr[s].pc = "inW"
           w == KsWritten(auth.hostKey, auth.userKeys, c)
       IN \E applied \in (IF racy THEN BOOLEAN ELSE {TRUE}) :
            auth' = [auth EXCEPT
                       !.hostKey = IF applied THEN w.hostKey ELSE @,
                       !.userKeys = IF applied THEN w.userKeys ELSE @,
                       !.material = IF applied /\ c.name = "SetHostKey" THEN c.m ELSE @,
                       !.ks.thr[t] = [pc |-> "idle", call |-> NoCall],
                       !.ks.lock.writer = 0,
                       !.ks.raced = @ \/ racy]
    /\ UNCHANGED <<serverVars, work>>

\* what the goroutines do once they are in a call
KsStep ==
    \E t \in Threads :
        KsRLock(t) \/ KsReadRUnlock(t) \/ KsLockPending(t) \/ KsLock(t) \/ KsWriteUnlock(t)

InitKsLock ==
    /\ InitServer
    /\ variant = "errgroup"
    /\ maxconn = -1
    /\ work = WorkIdle
    /\ auth = AuthIdle

NextKsLock ==
    \/ \E t \in Threads, c \in KsCalls : KsCall(t, c)
    \/ \E t \in Threads : KsRLock(t)
    \/ \E t \in Threads : KsReadRUnlock(t)
    \/ \E t \in Threads : KsLockPending(t)
    \/ \E t \in Threads : KsLock(t)
    \/ \E t \in Threads : KsWriteUnlock(t)

\* goroutines calling the methods of one keystore concurrently; the Go
\* scheduler lets every goroutine that can run take its next step
SpecKsLock == InitKsLock /\ [][NextKsLock]_vars /\ WF_vars(KsStep)

\* The errgroup-based server under the scheduling the Go runtime gives:
\* every goroutine that can take its next step eventually does, Accept on a
\* closed listener returns net.ErrClosed, and handlers return.
FairSpec ==
    /\ Spec
    /\ WF_vars(ServeGoAccept)
    /\ WF_vars(ServeGoWatch)
    /\ WF_vars(ServeWait)
    /\ WF_vars(AcceptError(ClosedAcceptError))
    /\ WF_vars(\E t \in Stoppers : WatchStop(t))
    /\ WF_vars(WatchCtxDone)
    /\ \A c \in Conns : WF_vars(HandlerReturn(c)) /\ WF_vars(ClosureFinish(c))
    /\ \A t \in Stoppers : WF_vars(StopRecvClosed(t)) /\ WF_vars(StopSendClosed(t))

\* ================================================================ claims
Dialed == {c \in Conns : conn[c].st # "none"}
Rejected == {c \in Conns : conn[c].st = "rejected"}
Finished == {c \in Conns : conn[c].st \in {"returned", "done"}}

\* C1: the number of connection handlers running at the same time never
\* exceeds the configured capacity (a negative MAXCONN sets no limit).
C1_CapacityNeverExceeded ==
    maxconn >= 0 => Cardinality(BusyConns) <= maxconn

\* C1 witness: a limited server is serving a connection and has turned
\* another one away.
C1_Witness ==
    /\ maxconn = MaxLimit
    /\ BusyConns # {}
    /\ Rejected # {}

\* C2: a burst of M <= N connections that are open at the same time (no
\* handler has finished) is admitted whole: none is rejected.
C2_BurstWithinCapacityAdmitted ==
    (maxconn >= 1 /\ Cardinality(Dialed) <= maxconn /\ Finished = {})
        => Rejected = {}

\* C3: a connection is turned away only when exactly N handlers are running,
\* and then with a log record.
C3_RejectOnlyWhenNRunning ==
    [][\A c \in Conns :
         (conn[c].st # "rejected" /\ conn'[c].st = "rejected")
            => /\ Cardinality(BusyConns) = maxconn
               /\ (<<"exceedMax", c>> \in log' \/ <<"addError", c>> \in log')]_vars

\* C4: every Accept error has exactly one of three outcomes: a timeout is
\* logged and the loop goes on; listener-closed ends the loop without error;
\* any other error ends the loop and is what Serve returns.
C4_AcceptErrorClassified ==
    /\ lastErr = "timeout" =>
          /\ acceptPc = "accepting"
          /\ <<"acceptTimeout", 0>> \in log
    /\ lastErr = "closed" =>
          /\ acceptPc = "returned"
          /\ gErr = "none"
          /\ servePc = "returned" => serveErr = "none"
    /\ lastErr = "other" =>
          /\ acceptPc = "returned"
          /\ gErr = "accept"
          /\ servePc = "returned" => serveErr = "accept"

\* C4 witness: Serve has returned the fatal Accept error after a timeout was
\* logged.
C4_Witness ==
    /\ lastErr = "other"
    /\ <<"acceptTimeout", 0>> \in log
    /\ servePc = "returned"
    /\ serveErr = "accept"

\* a Stop call is at its send on s.stop while Serve is running
StopWhileServing ==
    /\ servePc \in {"goAccept", "goWatch", "wait"}
    /\ \E t \in Stoppers : stop[t] = "send"

\* Serve has returned, and with an error only if Accept failed fatally
ServeReturnedClean ==
    /\ servePc = "returned"
    /\ serveErr = "none" \/ lastErr = "other"

\* C5: a Stop called while Serve is running makes Serve return, and without
\* an error caused by the closing of the listener.
C5_StopEndsServe == (StopWhileServing /\ maxconn # 0) ~> ServeReturnedClean

\* C5, for the limits that leave room for both lifecycle goroutines
C5_StopEndsServeWithRoom ==
    (StopWhileServing /\ (maxconn < 0 \/ maxconn >= 2)) ~> ServeReturnedClean

\* C6: a cancellation of the server's context makes Stop run once, not
\* repeatedly.
C6_StopOncePerCancel == ctxDone => ctxStops <= 1

\* C7: a Stop that follows a completed Stop does not panic.
C7_RepeatedStopHarmless ==
    \A t \in Stoppers :
        (\E u \in Stoppers : u # t /\ stop[u] = "returned") => stop[t] # "panicked"

\* C8: once the server has finished with a connection whose handler ran, the
\* connection is closed, whether the handler returned nil or an error.
C8_ClosedAfterHandler ==
    \A c \in Conns : conn[c].st = "done" => conn[c].closed

\* C8 witness: OnFinish has closed a connection whose handler returned an
\* error and one whose handler returned nil.
C8_Witness ==
    /\ variant = "pool"
    /\ \E c \in Conns : conn[c].st = "done" /\ conn[c].herr /\ conn[c].closed
    /\ \E c \in Conns : conn[c].st = "done" /\ ~conn[c].herr /\ conn[c].closed

\* C9: the handler is invoked exactly once for an admitted connection, never
\* for another one, and the connection is open for as long as the handler runs:
\* the server closes it only after the handler returned.
C9_HandlerOnceThenClose ==
    \A c \in Conns :
        /\ conn[c].calls = IF conn[c].st \in {"running", "returned", "done"} THEN 1 ELSE 0
        /\ conn[c].st = "running" => ~conn[c].closed
        /\ conn[c].closed => conn[c].st \in {"returned", "done"}

\* C9 witness: a handler has run once and returned, and the server closed the
\* connection afterwards.
C9_Witness ==
    \E c \in Conns : conn[c].st = "done" /\ conn[c].calls = 1 /\ conn[c].closed

\* C10: when WorkConnect has returned, the channel stream is closed, every
\* channel it delivered was dispatched, and no channel task is still running.
C10_ReturnAfterAllChannels ==
    work.pc = "returned" =>
        /\ work.closed
        /\ work.wg = 0
        /\ \A c \in Chans : work.task[c] \in {"unopened", "done"}

\* C10 witness: WorkConnect returned after at least two channel tasks ran.
C10_Witness ==
    /\ work.pc = "returned"
    /\ Cardinality({c \in Chans : work.task[c] = "done"}) >= 2

\* channels that have been handed to DefaultChannelHandler
DefaultChans == {c \in Chans : work.handler[c] = "default"}

\* C11: DefaultChannelHandler returns only when the channel's request stream
\* is closed and every request task it started has completed; and the dispatch
\* loop of WorkConnect can always take the next channel, whatever the channels
\* dispatched earlier are doing.
C11_ChannelJoinsRequests ==
    /\ \A c \in DefaultChans : work.cret[c] = "nil" =>
          /\ work.rclosed[c]
          /\ work.rwg[c] = 0
          /\ \A r \in Reqs : work.req[r].ch = c => work.req[r].st = "done"
    /\ \A c \in Chans :
          (work.pc = "ranging" /\ c \in NextPending) => ENABLED WorkDispatch(c)

\* C11 witness: the first channel is still inside DefaultChannelHandler,
\* waiting for a request task, and the second channel has been dispatched.
C11_Witness ==
    /\ InDefault(1)
    /\ work.chpc[1] = "waiting"
    /\ work.rwg[1] > 0
    /\ work.task[2] = "running"
    /\ work.id[2] = 1

\* channels the range loop of WorkConnect has read
ReadChans == {c \in Chans : work.task[c] \in {"running", "done"}}

\* requests the range loop of a DefaultChannelHandler has read
ReadReqs == {r \in Reqs : work.req[r].st \in {"spawned", "done"}}

\* C12: a channel read from the channel stream is passed to one invocation of
\* a channel handler, a request read from a request stream to one invocation of
\* a request handler: the handler registered for its type, or the default one
\* when the type has no entry; none is left out when the loops have ended.
C12_ExactlyOneHandler ==
    /\ \A c \in Chans :
          /\ work.calls[c] = IF c \in ReadChans THEN 1 ELSE 0
          /\ c \in ReadChans =>
                work.handler[c] = IF work.typ[c] \in ChannelHandlers
                                  THEN work.typ[c] ELSE "default"
          /\ (work.pc = "returned" /\ work.task[c] # "unopened") => work.calls[c] = 1
    /\ \A r \in Reqs :
          /\ work.req[r].calls <= 1
          /\ work.req[r].calls = 1 <=> work.req[r].st = "done"
          /\ r \in ReadReqs =>
                work.req[r].handler = IF work.req[r].typ \in RequestHandlers
                                      THEN work.req[r].typ ELSE "default"
          /\ (work.req[r].st # "unsent" /\ work.cret[work.req[r].ch] = "nil")
                => work.req[r].calls = 1

\* C12 witness: WorkConnect has returned after a channel went to its
\* registered handler and another one to the default handler, which gave one
\* request to the registered request handler and one to the default one.
C12_Witness ==
    /\ work.pc = "returned"
    /\ \E c \in Chans : work.handler[c] = "session" /\ work.calls[c] = 1
    /\ \E c \in DefaultChans :
          /\ \E r \in Reqs : /\ work.req[r].ch = c
                             /\ work.req[r].handler = "exec"
                             /\ work.req[r].calls = 1
          /\ \E r \in Reqs : /\ work.req[r].ch = c
                             /\ work.req[r].handler = "default"
                             /\ work.req[r].calls = 1

\* C13: within one channel the request handlers are invoked in arrival order:
\* when the handler of a request has been invoked, so has the handler of every
\* request that arrived before it on the same channel.
C13_RequestsInArrivalOrder ==
    \A r1, r2 \in Reqs :
        (/\ r1 < r2
         /\ work.req[r1].ch = work.req[r2].ch
         /\ work.req[r2].calls >= 1) => work.req[r1].calls >= 1

\* C14: an error of a channel handler or of a request handler is logged and
\* goes no further: the loops can still dispatch the items that follow,
\* DefaultChannelHandler returns nil once it accepted the channel, WorkConnect
\* returns nil, and the tasks of the other items have all run by then.
C14_HandlerErrorsContained ==
    /\ \A c \in Chans : (work.task[c] = "done" /\ work.cret[c] = "err") => c \in work.logged
    /\ \A r \in Reqs : work.req[r].err => r \in work.rlogged
    /\ \A c \in Chans :
          (work.pc = "ranging" /\ c \in NextPending) => ENABLED WorkDispatch(c)
    /\ \A c \in Chans, r \in Reqs :
          (InDefault(c) /\ work.chpc[c] = "ranging" /\ r \in NextQueued(c))
             => ENABLED ReqDispatch(r)
    /\ \A c \in DefaultChans :
          (work.accepted[c] = "yes" /\ work.task[c] = "done") =>
             /\ work.cret[c] = "nil"
             /\ \A r \in Reqs : work.req[r].ch = c => work.req[r].st = "done"
    /\ work.pc = "returned" =>
          /\ work.ret = "nil"
          /\ \A c \in Chans : work.task[c] \in {"unopened", "done"}

\* C14 witness: WorkConnect returned nil although a channel handler failed,
\* and a DefaultChannelHandler returned nil although a request handler failed
\* before a later request of the same channel was handled.
C14_Witness ==
    /\ work.pc = "returned"
    /\ work.ret = "nil"
    /\ \E c \in Chans : work.cret[c] = "err" /\ c \in work.logged
    /\ \E c \in DefaultChans, r1, r2 \in Reqs :
          /\ work.cret[c] = "nil"
          /\ r1 < r2
          /\ work.req[r1].ch = c /\ work.req[r2].ch = c
          /\ work.req[r1].err /\ r1 \in work.rlogged
          /\ work.req[r2].st = "done"

\* C15: when the server finishes with a connection whose handler returned an
\* error, the error is logged and nothing else is affected by that step: the
\* accept loop and the listener stay as they are, no other connection changes,
\* the group records no error, its context is not cancelled and Serve's
\* result is untouched.
C15_HandlerErrorContained ==
    [][\A c \in Conns :
         (conn[c].st = "returned" /\ conn[c].herr /\ conn'[c].st = "done")
            => /\ <<"handlerError", c>> \in log'
               /\ acceptPc' = acceptPc
               /\ listener' = listener
               /\ gErr' = gErr
               /\ eCtxDone' = eCtxDone
               /\ servePc' = servePc
               /\ serveErr' = serveErr
               /\ \A d \in Conns : d # c => conn'[d] = conn[d]]_vars

\* C15 witness: a handler error has been logged while the accept loop is
\* still accepting and another connection is still being served.
C15_Witness ==
    /\ \E c \in Conns : /\ conn[c].st = "done"
                        /\ conn[c].herr
                        /\ <<"handlerError", c>> \in log
    /\ \E d \in Conns : conn[d].st = "running" /\ ~conn[d].closed
    /\ acceptPc = "accepting"
    /\ listener = "open"
    /\ gErr = "none"
    /\ ~eCtxDone

\* C16: a channel whose type has no entry in ChannelHandlers is not accepted:
\* once its handler has had it, it has been rejected.
C16_UnknownChannelRejected ==
    \A c \in Chans :
        (work.typ[c] \in ChanTypes \ ChannelHandlers) =>
            /\ work.accepted[c] # "yes"
            /\ work.task[c] = "done" => work.accepted[c] = "rejected"

\* requests whose type has no entry in RequestHandlers
UnregisteredReqs == {r \in Reqs : work.req[r].typ \in ReqTypes \ RequestHandlers}

C18_UnsupportedKeyRejectedFirst ==
    (auth.res.method = "publickey" /\ auth.res.key.type \notin auth.supported) =>
        /\ auth.res.err = ErrKeyNotSupported
        /\ auth.res.perm = {}
        /\ ~auth.res.consulted

\* C18 witness: a key of an unsupported algorithm was turned away although
\* the keystore holds exactly that key for the user.
C18_Witness ==
    /\ auth.res.method = "publickey"
    /\ auth.res.key.type \notin auth.supported
    /\ auth.res.record = "match"
    /\ auth.res.err = ErrKeyNotSupported

\* C19: for a supported algorithm, a user without a stored record and a known
\* user presenting a key that does not match get the same answer: nil
\* permissions and ErrAuthFailed itself.
C19_UnknownUserLikeMismatch ==
    /\ (/\ auth.res.method = "publickey"
        /\ auth.res.key.type \in auth.supported
        /\ auth.res.record \in {"absent", "mismatch"}) =>
            /\ auth.res.perm = {}
            /\ auth.res.err = ErrAuthFailed
    /\ \A u1, u2 \in Users, k1, k2 \in Keys :
          (/\ k1.type \in auth.supported
           /\ k2.type \in auth.supported
           /\ auth.userKeys[u1] = NoKey
           /\ auth.userKeys[u2] \notin {NoKey, k2}) =>
              LET a == PublicKeyCallback(auth.supported, auth.userKeys, u1, k1)
                  b == PublicKeyCallback(auth.supported, auth.userKeys, u2, k2)
              IN a.perm = b.perm /\ a.err = b.err

\* C19 witness: a known user presenting another key of the stored key's
\* algorithm got ErrAuthFailed while the keystore has no record for some
\* other user.
C19_Witness ==
    /\ auth.res.method = "publickey"
    /\ auth.res.key.type \in auth.supported
    /\ auth.res.record = "mismatch"
    /\ auth.userKeys[auth.res.user].type = auth.res.key.type
    /\ auth.res.err = ErrAuthFailed
    /\ \E u \in Users : auth.userKeys[u] = NoKey

\* C20: the password, keyboard-interactive and no-auth callbacks return nil
\* permissions and an error for every input and every keystore.
C20_OtherMethodsNeverGrant ==
    auth.res.method \in {"password", "keyboard-interactive", "none"} =>
        /\ auth.res.perm = {}
        /\ auth.res.err # ErrNil

\* C20 witness: password authentication was refused for a user whose key is
\* in the keystore.
C20_Witness ==
    /\ auth.res.method = "password"
    /\ auth.userKeys[auth.res.user] # NoKey
    /\ auth.res.perm = {}
    /\ auth.res.err = ErrAuthFailedReason("authentication method not supported")

\* the four authentication callbacks, by the name of their method
AuthMethods == {"publickey", "password", "keyboard-interactive", "none"}

\* C21: every error an authentication callback returns is ErrAuthFailed or
\* unwraps to ErrAuthFailed.
C21_AuthErrorsAreAuthFailed ==
    (auth.res.method \in AuthMethods /\ auth.res.err # ErrNil)
        => IsAuthFailed(auth.res.err)

\* C22: GetHostKey on a keystore whose host key was never set returns
\* ErrNoHostKey, and never a nil key without an error; once key material has
\* been set, it returns without error the key parsed from the material set
\* last.
C22_GetHostKey ==
    auth.res.method = "GetHostKey" =>
        /\ ~(auth.res.signer = NoSigner /\ auth.res.err = ErrNil)
        /\ auth.material = NoMaterial =>
              (auth.res.err = ErrNoHostKey /\ auth.res.signer = NoSigner)
        /\ auth.material # NoMaterial =>
              (auth.res.err = ErrNil /\ auth.res.signer.pub = auth.material.key)

\* C22 witness: GetHostKey returned, without error, the key parsed from the
\* material that was set last.
C22_Witness ==
    /\ auth.res.method = "GetHostKey"
    /\ auth.res.err = ErrNil
    /\ auth.material.valid
    /\ auth.res.signer = Signer(MaxKeys)

\* C23: a SetHostKey call that returns an error leaves the keystore as it
\* was: the host key, what GetHostKey returns, and the whole userKeys map.
C23_FailedSetHostKeyKeepsState ==
    [][(/\ auth'.res.method = "SetHostKey"
        /\ auth'.res.err # ErrNil
        /\ auth' # auth)
          => /\ auth'.hostKey = auth.hostKey
             /\ GetHostKey(auth'.hostKey) = GetHostKey(auth.hostKey)
             /\ auth'.userKeys = auth.userKeys]_vars

\* C23 witness: SetHostKey has failed on malformed material while the
\* keystore holds a host key and a known host: both are still there.
C23_Witness ==
    /\ auth.res.method = "SetHostKey"
    /\ auth.res.err = ErrParse
    /\ auth.hostKey # NoSigner
    /\ auth.hostKey = ParsePrivateKey(auth.material).signer
    /\ \E u \in Users : auth.userKeys[u] # NoKey

\* C24: CheckKnownHost never returns an error, and returns true exactly when
\* the key stored for the identifier has the algorithm and the bytes of the
\* key presented: false for an identifier without a key and for another key.
C24_CheckKnownHostExact ==
    /\ auth.res.method = "CheckKnownHost" =>
          /\ auth.res.err = ErrNil
          /\ auth.res.ok <=> auth.res.record = "match"
    /\ \A u \in Users, k \in Keys :
          CheckKnownHost(auth.userKeys, u, k) =
              [ok |-> /\ auth.userKeys[u] # NoKey
                      /\ auth.userKeys[u].type = k.type
                      /\ auth.userKeys[u].blob = k.blob,
               err |-> "nil"]

\* C24 witness: CheckKnownHost returned false for a key that has the bytes
\* of the stored key but another algorithm.
C24_Witness ==
    /\ auth.res.method = "CheckKnownHost"
    /\ ~auth.res.ok
    /\ auth.res.err = ErrNil
    /\ auth.userKeys[auth.res.user].blob = auth.res.key.blob
    /\ auth.userKeys[auth.res.user].type # auth.res.key.type
    /\ auth.userKeys[auth.res.user] # NoKey

\* C25: AddKnownHost(id, k) leaves exactly k stored for id, whatever was
\* stored before: CheckKnownHost is true for k and false for every other key,
\* and the entries of the other identifiers are as they were.
C25_AddKnownHostOverwrites ==
    [][(auth'.res.method = "AddKnownHost" /\ auth' # auth)
          => LET u == auth'.res.user
                 k == auth'.res.key
             IN /\ CheckKnownHost(auth'.userKeys, u, k).ok
                /\ \A k1 \in Keys \ {k} : ~CheckKnownHost(auth'.userKeys, u, k1).ok
                /\ \A v \in Users \ {u} : auth'.userKeys[v] = auth.userKeys[v]]_vars

\* C25 witness: AddKnownHost has replaced another key of the identifier while
\* another identifier has a key.
C25_Witness ==
    /\ auth.res.method = "AddKnownHost"
    /\ auth.res.record = "mismatch"
    /\ auth.userKeys[auth.res.user] = auth.res.key
    /\ \E v \in Users \ {auth.res.user} : auth.userKeys[v] # NoKey

\* C26: a CheckKnownHost call changes neither the host key nor userKeys, and
\* as long as no other call followed it, the same call returns the same
\* result.
C26_CheckKnownHostPure ==
    /\ [][auth'.res.method = "CheckKnownHost"
             => /\ auth'.hostKey = auth.hostKey
                /\ auth'.userKeys = auth.userKeys]_vars
    /\ [](auth.res.method = "CheckKnownHost" =>
             LET again == CheckKnownHost(auth.userKeys, auth.res.user, auth.res.key)
             IN again.ok = auth.res.ok /\ again.err = "nil" /\ auth.res.err = ErrNil)

\* C26 witness: CheckKnownHost found the key of a known host in a keystore
\* that has a host key.
C26_Witness ==
    /\ auth.res.method = "CheckKnownHost"
    /\ auth.res.ok
    /\ auth.hostKey # NoSigner
    /\ auth.userKeys[auth.res.user] = auth.res.key

\* C27: under every interleaving of concurrent keystore calls, a goroutine
\* between Lock and Unlock is alone with hostKey and userKeys (no other
\* writer, no reader), no access is unsynchronised, once no writer is at work
\* the host key and the map are what the writes give when they are applied
\* one after the other in the order of their locks, and every call returns:
\* a goroutine leaves "idle" only by a call and comes back to it only by the
\* return, so from some point on every goroutine is idle for good.
C27_KeystoreLocking ==
    /\ [](\A t \in Threads :
            auth.ks.thr[t].pc = "inW" =>
                \A s \in Threads \ {t} : auth.ks.thr[s].pc \notin {"inW", "inR"})
    /\ [](~auth.ks.raced)
    /\ []((\A t \in Threads : auth.ks.thr[t].pc # "inW") =>
             /\ auth.hostKey = auth.ks.serial.hostKey
             /\ auth.userKeys = auth.ks.serial.userKeys)
    /\ <>[](\A t \in Threads : auth.ks.thr[t].pc = "idle")

\* C27 witness: two readers hold the lock together while a writer that has
\* announced itself waits for them to leave.
C27_Witness ==
    \E r1, r2, w \in Threads :
        /\ r1 # r2
        /\ auth.ks.thr[r1].pc = "inR"
        /\ auth.ks.thr[r2].pc = "inR"
        /\ auth.ks.thr[w].pc = "pendW"
        /\ auth.ks.lock.readers = 2

\* C28: Stop of the pool-based server closes the listener, then stops and
\* drains the pool, then shuts the logger down: a Stop that is past a step
\* has the steps before it behind it, a failed listener close is logged and
\* Stop goes on to the pool, and Stop returns an error only from the logger
\* shutdown.
C28_StopOrder ==
    /\ [](\A t \in StopThreads :
            /\ stop[t] \in {"stopPool", "shutdownLogger", "returned", "returnedErr"}
                  => listener = "closed"
            /\ stop[t] \in {"shutdownLogger", "returned", "returnedErr"} => poolStopped
            /\ stop[t] \in {"returned", "returnedErr"} => loggerDown)
    /\ []((loggerDown => poolStopped) /\ (poolStopped => listener = "closed"))
    /\ [][\A t \in StopThreads :
            /\ (stop[t] \in {"idle", "returned", "returnedErr"} /\ stop'[t] # stop[t])
                  => /\ stop'[t] = "stopPool"
                     /\ listener' = "closed"
                     /\ listener = "closed" => <<"stopCloseError", 0>> \in log'
            /\ (stop[t] = "stopPool" /\ stop'[t] # stop[t])
                  => (stop'[t] = "shutdownLogger" /\ poolStopped' /\ Outstanding = {})
            /\ (stop[t] = "shutdownLogger" /\ stop'[t] # stop[t])
                  => (stop'[t] \in {"returned", "returnedErr"} /\ loggerDown')
            /\ (stop'[t] = "returnedErr" /\ stop[t] # "returnedErr")
                  => stop[t] = "shutdownLogger"]_vars

\* C28 witness: two runs of Stop, one by Listen's goroutine and one by the
\* embedding program, have both returned without error although the listener
\* close of the later one failed and was logged.
C28_Witness ==
    /\ variant = "pool"
    /\ ctxStops = 1
    /\ stop[CtxThread] = "returned"
    /\ stop[1] = "returned"
    /\ \A t \in Stoppers \ {1} : stop[t] = "idle"
    /\ <<"stopCloseError", 0>> \in log
    /\ poolStopped /\ loggerDown

\* C29: PublicKeyCallback grants permissions exactly when the type of the key
\* is in supportedKeyTypes and the keystore holds exactly this key for the
\* user; a grant has no error and carries the fingerprint of the key and both
\* forwarding extensions, every other outcome is nil permissions and an error.
C29_PublicKeyGrant ==
    auth.res.method = "publickey" =>
        /\ (auth.res.perm # {}) <=>
              (auth.res.key.type \in auth.supported /\ auth.userKeys[auth.res.user] = auth.res.key)
        /\ auth.res.perm # {} =>
              /\ auth.res.err = ErrNil
              /\ auth.res.perm = {[fp |-> <<"SHA256", <<auth.res.key.type, auth.res.key.blob>>>>,
                                   x11 |-> "true", agent |-> "true"]}
        /\ auth.res.perm = {} => auth.res.err # ErrNil

\* C29 witness: a user whose key is stored was granted permissions by
\* PublicKeyCallback while another user has another key in the keystore.
C29_Witness ==
    /\ auth.res.method = "publickey"
    /\ auth.res.perm # {}
    /\ auth.res.err = ErrNil
    /\ \E v \in Users \ {auth.res.user} :
          auth.userKeys[v] \notin {NoKey, auth.res.key}

\* C30: on one connection the k-th channel WorkConnect reads (k = 0, 1, ...)
\* gets index k: the counter is the number of channels read, a channel read
\* later has a larger index, and the handler of a channel finds the index of
\* its own channel in its context whatever the loop has done meanwhile.
C30_ChannelIndex ==
    /\ work.chanCounter = Cardinality(ReadChans)
    /\ \A c \in ReadChans : work.id[c] = Cardinality({d \in ReadChans : d < c})
    /\ \A c, d \in ReadChans : c < d => work.id[c] < work.id[d]
    /\ \A c \in Chans : work.task[c] = "done" => work.seen[c] = work.id[c]

\* C30 witness: the handler of the second channel has run with index 1 while
\* the first channel is still in its handler and the loop has gone on to read
\* a third channel.
C30_Witness ==
    /\ work.task[1] = "running"
    /\ work.task[2] = "done"
    /\ work.seen[2] = 1
    /\ work.id[3] = 2
    /\ work.chanCounter = 3

\* connections that Accept has returned to the server
AcceptedConns == {c \in Conns : conn[c].st \in {"rejected", "queued", "running", "returned", "done"}}

\* C31: every connection that Accept has returned is closed by the server in
\* the end, also one that TryGo turned away because the limit was reached or
\* one whose submission to the pool failed.
C31_AcceptedConnClosed ==
    \A c \in Conns : (c \in AcceptedConns) ~> conn[c].closed

\* C31, for the connections whose handler was started
C31_AdmittedConnClosed ==
    \A c \in Conns : (conn[c].st \in {"running", "returned", "done"} /\ Alive)
                        ~> (conn[c].closed \/ ~Alive)

\* both lifecycle goroutines of Serve have been started
LifecycleStarted == acceptPc # "notStarted" /\ watchPc # "notStarted"

\* C32: with a positive MAXCONN, a Serve that has set the limit gets both
\* its accept loop and its stop/cancel watcher started: it does not stay
\* blocked in connections.Go.
C32_LifecycleGoroutinesStart ==
    (maxconn >= 1 /\ servePc = "goAccept") ~> LifecycleStarted

\* C32, for the limits that leave a slot for each lifecycle goroutine
C32_LifecycleGoroutinesStartWithRoom ==
    (maxconn >= 2 /\ servePc = "goAccept") ~> LifecycleStarted

\* Stop has returned to its caller with the server shut down
StoppedClean(t) ==
    /\ stop[t] = "returned"
    /\ listener = "closed"
    /\ BusyConns = {}
    /\ servePc = "returned"

\* C33: in the errgroup-based server every Stop that is called returns in
\* the end, with the listener closed, no handler running and Serve returned,
\* also a Stop called before Serve has made its stop channel.
C33_StopReturns ==
    \A t \in Stoppers : (stop[t] # "idle") ~> StoppedClean(t)

\* C33, for a Stop that was called before Serve made s.stop, on a server
\* without connection limit whose Serve has since started both goroutines
C33_EarlyStopReturns ==
    (maxconn = -1 /\ stop[1] = "sendNil" /\ servePc = "wait") ~> StoppedClean(1)

====
